---------------------------- MODULE Spec2Model ----------------------------
(***************************************************************************)
(* The local backend supervisor of FeedVox AI (Electron main process,      *)
(* src/unnamed/part_001): worker lifecycle (startBackend, stopBackend,     *)
(* restartBackend, killExistingBackends), the health prober                *)
(* (checkBackendWithHttp, the axios fallback of updateTrayMenu) and the    *)
(* tray status (updateTrayMenu, checkBackendStatus).                       *)
(*                                                                         *)
(* Two specifications share this module.  Spec is the supervisor: every   *)
(* await of the source is a point where another callback may run, and a   *)
(* health probe is one asynchronous step whose answer can be "up" only    *)
(* while something is bound to the port.  ProbeSpec / ProbeFairSpec is    *)
(* one probe in detail: hosts, request events, timeouts, the fallback.    *)
(***************************************************************************)
EXTENDS Naturals, FiniteSets, Sequences

\* ------------------------------------------------------------------ bounds
\* Worker processes the supervisor can spawn in one run.
MaxProcs == 2
\* Lifecycle calls (tray/menu/IPC start or restart) in flight besides boot.
MaxCalls == 1
\* updateTrayMenu calls in flight at once.
MaxTrayProbes == 2
\* Renderer/menu checkBackendStatus calls in flight at once.
MaxChecks == 1
\* Pending "startup detected" timers of the stdout handler.
MaxMarkerTimers == 1
\* Readiness attempts per start (the source's maxAttempts is 30).
MaxReadyAttempts == 2
\* Inputs from outside the supervisor in one run: user commands (start,
\* stop, restart, check status), status ticks and stdout markers.
MaxInputs == 2
\* updateBackendStatus() calls of the renderer that are followed
MaxBadgeChecks == 3
Checks == 1..MaxBadgeChecks
\* statuses a /health response can carry: two in fetch's ok range, one not
HttpStatuses == {200, 201, 503}

\* --------------------------------------------------------------- constants
Procs == 1..MaxProcs
NoProc == 0
CallIds == 0..MaxCalls
BootCall == 0
NoResult == "none"
\* updateTrayMenu's label and tooltip text for a determination.
LabelOffline(r) == "Offline"
StatusOf(r) == IF r THEN "Connected" ELSE "Offline"

VARIABLES
    tray,            \* the Tray object exists (createTray can fail)
    backendProcess,  \* the supervisor's process handle: NoProc or a process
    isQuitting,      \* set by before-quit
    gotTheLock,      \* app.requestSingleInstanceLock() succeeded
    app,             \* the application: loading, running or exited
    pathsOk,         \* the Python executable and main.py exist on disk
    proc,            \* every worker process the supervisor has spawned
    orphan,          \* a worker not spawned by this run is bound to the port
    call,            \* boot / startBackend / restartBackend calls in flight
    graceTimers,     \* pending force-kill timers of stopBackend
    ready,           \* the checkReady loop of each spawn
    trayProbes,      \* updateTrayMenu calls awaiting their probe
    statusChecks,    \* check-backend-status calls awaiting their probe
    markerTimers,    \* pending timers of the stdout "startup detected" path
    published,       \* isBackendRunning of the tray menu last set: its label
    toggle,          \* the Start/Stop item of the tray menu last set
    tooltip,         \* the tooltip of the tray
    lastProbe,       \* history: result of the probe that completed last
    inputs,          \* inputs received so far
    lastStart,       \* history: how the startBackend() that returned last ended
    \* --- one probe in detail (ProbeSpec)
    caller,          \* who probes: checkBackendStatus or updateTrayMenu
    now,             \* ms since the probe began
    attempts,        \* checkBackendWithHttp's host counter
    req,             \* the http.request made for each host
    httpResult,      \* what checkBackendWithHttp's promise resolved to
    axiosReq,        \* the fallback axios.get of updateTrayMenu
    isBackendRunning,\* the probe's determination, once made
    resolvedAt,      \* history: when the determination was made
    got200,          \* history: some request of the probe received a 200
    \* --- the renderer process (BadgeSpec)
    loaded,          \* DOMContentLoaded has fired
    backendStatus,   \* the #backend-status element: its class and its text
    health           \* every updateBackendStatus() call: its stage and response

\* The renderer shares no state with the main process: no step of the
\* supervisor or of a probe touches its variables.
rendvars == <<loaded, backendStatus, health>>

supvars == <<tray, backendProcess, isQuitting, gotTheLock, app, pathsOk,
             proc, orphan, call, graceTimers, ready, trayProbes, statusChecks, markerTimers,
             published, toggle, tooltip, lastProbe, inputs, lastStart, rendvars>>

probevars == <<caller, now, attempts, req, httpResult, axiosReq,
               isBackendRunning, resolvedAt, got200, rendvars>>

\* The variables of the main process, which no step of the renderer touches.
mainvars == <<tray, backendProcess, isQuitting, gotTheLock, app, pathsOk,
              proc, orphan, call, graceTimers, ready, trayProbes, statusChecks, markerTimers,
              published, toggle, tooltip, lastProbe, inputs, lastStart,
              caller, now, attempts, req, httpResult, axiosReq,
              isBackendRunning, resolvedAt, got200>>

vars == <<supvars, probevars>>

\* ----------------------------------------------------------- OS processes
Alive(p) == proc[p].st \in {"starting", "listening"}
Spawned(p) == proc[p].st # "unborn"
AliveWorkers == {p \in Procs : Alive(p)}

\* Something answers GET /health on port 7717.
PortAnswered == orphan \/ \E p \in Procs : proc[p].st = "listening"

\* What a probe started earlier can resolve to now: true needs a 200, which
\* only a process bound to the port sends; every failure gives false.
ProbeResults == IF PortAnswered THEN {TRUE, FALSE} ELSE {FALSE}

\* A forceful kill (taskkill /f, kill -9, SIGKILL) of a process in state st:
\* a live process is gone at once, its 'close' event still to come.
ForceKill(st) == IF st \in {"starting", "listening"} THEN "killed" ELSE st

\* ChildProcess.kill(signal).  SIGTERM is the graceful request: the worker
\* exits at once, later or not at all (WorkerExits); SIGKILL is forceful.
Kill(st, signal) == IF signal = "SIGKILL" THEN ForceKill(st) ELSE st

\* killExistingBackends, the synchronous part: whatever is bound to port
\* 7717 is killed forcefully (taskkill /f on the port's owner, or
\* lsof -ti:7717 | xargs kill -9).  The pattern kills beside it (taskkill by
\* window title, pkill -f "python.*main.py") are graceful or match nothing:
\* a worker not bound to the port may survive them.
KillExistingProcs ==
    [p \in Procs |-> [proc[p] EXCEPT !.st = IF @ = "listening" THEN ForceKill(@) ELSE @]]

\* --------------------------------------------------------------- helpers
\* The main process is past 'ready' and has not exited: its handlers run.
AppRuns == app = "running"
Idle == [op |-> "none", pc |-> "idle"]
NoLoop == [st |-> "none", attempts |-> 0, refreshes |-> 0]

\* The tray refreshes in flight that checkReady loops started, through
\* checkBackendStatus or by themselves.
RECURSIVE RefreshesOf(_)
RefreshesOf(S) ==
    IF S = {} THEN 0
    ELSE LET p == CHOOSE q \in S : TRUE IN ready[p].refreshes + RefreshesOf(S \ {p})
LoopRefreshes == RefreshesOf(Procs)

\* updateTrayMenu() called n times: each call that finds the tray starts a
\* probe of its own; without a tray it returns at once.
TrayAfter(n) == IF tray THEN trayProbes + n ELSE trayProbes
TrayRoom(n) == TrayAfter(n) <= MaxTrayProbes

\* The lowest process id not used yet: the process the next spawn creates.
NextProc == CHOOSE p \in Procs : proc[p].st = "unborn" /\
                \A q \in Procs : proc[q].st = "unborn" => p <= q
CanSpawn == \E p \in Procs : proc[p].st = "unborn"

\* "if (backendProcess)": startBackend's handle check, stopBackend's guard
\* and the grace timer's guard.
HandleHeld == backendProcess # NoProc

\* "fs.existsSync(pythonExecutable)" and "fs.existsSync(mainPyPath)": the
\* validation before the spawn.
PathsUnchecked == TRUE
PathsValid == pathsOk

\* "backendProcess = null" of the 'close' handler: the handle after it.
HandleKept == backendProcess
AfterClose == NoProc

\* The lifecycle calls after the 'close' handler has run: it shows a balloon
\* and refreshes the tray; it calls neither startBackend nor restartBackend.
RestartOnClose ==
    [c \in CallIds |-> IF c # BootCall /\ call[c] = Idle
                       THEN [op |-> "start", pc |-> "s_cleanup"] ELSE call[c]]
CallsAfterClose == call

\* The readiness loop when startBackend returns: "setTimeout(checkReady,
\* 3000)" has armed the first check, which has not run.
LoopProbing == [st |-> "probing", attempts |-> 1, refreshes |-> 0]
LoopArmed == [st |-> "timer", attempts |-> 0, refreshes |-> 0]

\* What a call slot holds once its async function has returned: boot goes on
\* to arm the status timers, any other call is over.
Returned(c) == IF c = BootCall THEN [op |-> "boot", pc |-> "done"] ELSE Idle

\* stopBackend(), on the process table pt (the caller may have changed it in
\* the same synchronous run).
StopBackendUnguarded(pt) ==
    /\ proc' = pt
    /\ graceTimers' = graceTimers \cup {backendProcess}
    /\ backendProcess' = NoProc
StopBackendOn(pt) ==
    IF HandleHeld
    THEN /\ proc' = [pt EXCEPT ![backendProcess].st = Kill(@, "SIGTERM")]
         /\ graceTimers' = graceTimers \cup {backendProcess}
         /\ backendProcess' = NoProc
    ELSE /\ proc' = pt
         /\ UNCHANGED <<graceTimers, backendProcess>>

\* ------------------------------------------------------------------ Init
\* The state when the main script has been loaded by an instance that holds
\* the single-instance lock: the handlers are registered, nothing has run.
\* The worker's files exist or not; a worker not spawned by this instance
\* (left over from an earlier run) may hold the port.
SupInit ==
    /\ tray = FALSE
    /\ backendProcess = NoProc
    /\ isQuitting = FALSE
    /\ gotTheLock = TRUE
    /\ app = "loading"
    /\ pathsOk \in BOOLEAN
    /\ proc = [p \in Procs |-> [st |-> "unborn", code |-> "none"]]
    /\ orphan \in BOOLEAN
    /\ call = [c \in CallIds |->
                 IF c = BootCall THEN [op |-> "boot", pc |-> "load"] ELSE Idle]
    /\ graceTimers = {}
    /\ ready = [p \in Procs |-> NoLoop]
    /\ trayProbes = 0
    /\ statusChecks = 0
    /\ markerTimers = 0
    /\ published = NoResult
    /\ toggle = NoResult
    /\ tooltip = NoResult
    /\ lastProbe = NoResult
    /\ inputs = 0
    /\ lastStart = "none"

\* The state when the main script of an instance that does not get the lock
\* has registered its handlers and is about to call app.quit().  The worker
\* that may hold the port is the lock holder's.
SecondInit ==
    /\ tray = FALSE
    /\ backendProcess = NoProc
    /\ isQuitting = FALSE
    /\ gotTheLock = FALSE
    /\ app = "loading"
    /\ pathsOk \in BOOLEAN
    /\ proc = [p \in Procs |-> [st |-> "unborn", code |-> "none"]]
    /\ orphan \in BOOLEAN
    /\ call = [c \in CallIds |->
                 IF c = BootCall THEN [op |-> "boot", pc |-> "load"] ELSE Idle]
    /\ graceTimers = {}
    /\ ready = [p \in Procs |-> NoLoop]
    /\ trayProbes = 0
    /\ statusChecks = 0
    /\ markerTimers = 0
    /\ published = NoResult
    /\ toggle = NoResult
    /\ tooltip = NoResult
    /\ lastProbe = NoResult
    /\ inputs = 0
    /\ lastStart = "none"

\* createTray's tooltip, and the parts of the menu updateTrayMenu builds
\* from its isBackendRunning: the toggle item and the tooltip (the status
\* label is StatusOf).
InitialTooltip == "Medical Transcription Suite"
ToggleOf(r) == IF r THEN "Stop Backend" ELSE "Start Backend"
TooltipFromHandle(r) == StatusOf(HandleHeld)
TooltipOf(r) == StatusOf(r)

\* ------------------------------------------------------ application events
\* 'ready' (which an application told to quit while loading may or may not
\* see): the whenReady handler runs to its first await.  createTray
\* builds the tray (or fails: t is FALSE) and calls updateTrayMenu; boot
\* awaits checkBackendStatus.
AppReady(t) ==
    /\ app = "loading"
    /\ gotTheLock \/ isQuitting
    /\ app' = "running"
    /\ tray' = t
    /\ tooltip' = IF t THEN InitialTooltip ELSE tooltip
    /\ trayProbes' = IF t THEN 1 ELSE 0
    /\ call' = [call EXCEPT ![BootCall].pc = "boot_probe"]
    /\ UNCHANGED <<backendProcess, isQuitting, gotTheLock, lastStart, pathsOk, proc, orphan,
                   graceTimers, ready, statusChecks, markerTimers, published, toggle,
                   lastProbe, inputs, probevars>>

\* 'before-quit', emitted by app.quit(): the user quits the running
\* application, or the script of an instance without the lock calls
\* app.quit() while loading.  isQuitting is set and stopBackend() called.
BeforeQuit ==
    /\ ~isQuitting
    /\ (AppRuns /\ inputs < MaxInputs) \/ (app = "loading" /\ ~gotTheLock)
    /\ inputs' = IF AppRuns THEN inputs + 1 ELSE inputs
    /\ isQuitting' = TRUE
    /\ StopBackendOn(proc)
    /\ UNCHANGED <<tray, gotTheLock, lastStart, app, pathsOk, orphan, call, ready,
                   trayProbes, statusChecks, markerTimers, published, toggle, tooltip, lastProbe,
                   probevars>>

\* 'will-quit'.  With a handle held the quit is prevented, stopBackend()
\* called and app.quit() called again 2 s later; otherwise the process
\* exits, and its pending timers and callbacks go with it.
WillQuit ==
    /\ app # "exited"
    /\ isQuitting
    /\ IF HandleHeld
       THEN /\ StopBackendOn(proc)
            /\ UNCHANGED <<app, call, ready, trayProbes, statusChecks, markerTimers>>
       ELSE /\ app' = "exited"
            /\ call' = [c \in CallIds |-> [op |-> "none", pc |-> "exited"]]
            /\ graceTimers' = {}
            /\ ready' = [p \in Procs |-> NoLoop]
            /\ trayProbes' = 0
            /\ statusChecks' = 0
            /\ markerTimers' = 0
            /\ UNCHANGED <<proc, backendProcess>>
    /\ UNCHANGED <<tray, isQuitting, gotTheLock, lastStart, pathsOk, orphan, published, toggle, tooltip,
                   lastProbe, inputs, probevars>>

\* ------------------------------------------------------- the environment
\* A starting worker binds the port (one process at a time can) and answers
\* /health.
WorkerBinds(p) ==
    /\ proc[p].st = "starting"
    /\ ~PortAnswered
    /\ proc' = [proc EXCEPT ![p].st = "listening"]
    /\ UNCHANGED <<tray, backendProcess, isQuitting, gotTheLock, lastStart, app, pathsOk, orphan, call,
                   graceTimers, ready, trayProbes, statusChecks, markerTimers,
                   published, toggle, tooltip, lastProbe, inputs,
                   probevars>>

\* A worker exits on its own account: a crash, an external kill, or its
\* reaction to a terminate signal.
WorkerExits(p) ==
    /\ Alive(p)
    /\ proc' = [proc EXCEPT ![p].st = "exited"]
    /\ UNCHANGED <<tray, backendProcess, isQuitting, gotTheLock, lastStart, app, pathsOk, orphan, call,
                   graceTimers, ready, trayProbes, statusChecks, markerTimers,
                   published, toggle, tooltip, lastProbe, inputs,
                   probevars>>

\* The worker left over from an earlier run goes away by itself.
OrphanExits ==
    /\ orphan
    /\ orphan' = FALSE
    /\ UNCHANGED <<tray, backendProcess, isQuitting, gotTheLock, lastStart, app, pathsOk, proc, call,
                   graceTimers, ready, trayProbes, statusChecks, markerTimers,
                   published, toggle, tooltip, lastProbe, inputs,
                   probevars>>

\* What the stdout handler publishes when it sees a success marker: nothing,
\* the status stays as it is.
MarkerMeansConnected == "Connected"
AfterMarker == published

\* The worker prints a success marker ("started successfully", "Uvicorn
\* running"): the stdout handler arms a 2 s timer for updateTrayMenu.
StdoutMarker(p) ==
    /\ AppRuns
    /\ inputs < MaxInputs
    /\ inputs' = inputs + 1
    /\ Alive(p)
    /\ markerTimers < MaxMarkerTimers
    /\ markerTimers' = markerTimers + 1
    /\ published' = AfterMarker
    /\ UNCHANGED <<toggle, tooltip>>
    /\ UNCHANGED <<tray, backendProcess, isQuitting, gotTheLock, lastStart, app, pathsOk, proc, orphan,
                   call, graceTimers, ready, trayProbes, statusChecks,
                   lastProbe,
                   probevars>>

\* The worker prints a failure marker ("ModuleNotFoundError", "ImportError")
\* on stderr: the stderr handler logs it.
StderrMarker(p) ==
    /\ AppRuns
    /\ inputs < MaxInputs
    /\ inputs' = inputs + 1
    /\ Alive(p)
    /\ UNCHANGED <<tray, backendProcess, isQuitting, gotTheLock, lastStart, app, pathsOk, proc, orphan,
                   call, graceTimers, ready, trayProbes, statusChecks, markerTimers,
                   published, toggle, tooltip, lastProbe,
                   probevars>>

MarkerTimerFires ==
    /\ AppRuns
    /\ markerTimers > 0
    /\ TrayRoom(1)
    /\ markerTimers' = markerTimers - 1
    /\ trayProbes' = TrayAfter(1)
    /\ UNCHANGED <<tray, backendProcess, isQuitting, gotTheLock, lastStart, app, pathsOk, proc, orphan,
                   call, graceTimers, ready, statusChecks, published, toggle, tooltip,
                   lastProbe, inputs,
                   probevars>>

\* ------------------------------------------------------ status and tray
\* An updateTrayMenu call gets its determination r and sets the menu, the
\* tooltip and the icon from it.
TrayProbeDone(r) ==
    /\ AppRuns
    /\ trayProbes > 0
    /\ r \in ProbeResults
    /\ trayProbes' = trayProbes - 1
    /\ published' = StatusOf(r)
    /\ toggle' = ToggleOf(r)
    /\ tooltip' = TooltipOf(r)
    /\ lastProbe' = StatusOf(r)
    /\ \/ /\ trayProbes > LoopRefreshes
          /\ UNCHANGED ready
       \/ \E p \in Procs :
             /\ ready[p].refreshes > 0
             /\ ready' = [ready EXCEPT ![p].refreshes = @ - 1]
    /\ UNCHANGED <<tray, backendProcess, isQuitting, gotTheLock, lastStart, app, pathsOk, proc, orphan,
                   call, graceTimers, statusChecks, markerTimers, inputs,
                   probevars>>

\* The 2 s timer and the 10 s interval armed at the end of boot.
PeriodicTick ==
    /\ AppRuns
    /\ inputs < MaxInputs
    /\ inputs' = inputs + 1
    /\ call[BootCall].pc = "done"
    /\ tray
    /\ trayProbes < MaxTrayProbes
    /\ trayProbes' = trayProbes + 1
    /\ UNCHANGED <<tray, backendProcess, isQuitting, gotTheLock, lastStart, app, pathsOk, proc, orphan,
                   call, graceTimers, ready, statusChecks, markerTimers,
                   published, toggle, tooltip, lastProbe,
                   probevars>>

\* An interval that is cleared when the readiness loops are over.
IntervalWhileStarting ==
    /\ AppRuns
    /\ call[BootCall].pc = "done"
    /\ tray
    /\ \E p \in Procs : ready[p].st \in {"timer", "probing"}
    /\ trayProbes < MaxTrayProbes
    /\ trayProbes' = trayProbes + 1
    /\ UNCHANGED <<tray, backendProcess, isQuitting, gotTheLock, lastStart, app,
                   pathsOk, proc, orphan, call, graceTimers, ready, statusChecks,
                   markerTimers, published, toggle, tooltip, lastProbe, inputs, probevars>>

\* The 10 s interval, tick after tick without end.
IntervalTick ==
    /\ AppRuns
    /\ call[BootCall].pc = "done"
    /\ tray
    /\ trayProbes < MaxTrayProbes
    /\ trayProbes' = trayProbes + 1
    /\ UNCHANGED <<tray, backendProcess, isQuitting, gotTheLock, lastStart, app,
                   pathsOk, proc, orphan, call, graceTimers, ready, statusChecks,
                   markerTimers, published, toggle, tooltip, lastProbe, inputs, probevars>>

\* check-backend-status (IPC) or "Check Status" (menus): checkBackendStatus
\* starts its native-HTTP probe.
CheckStatusCall ==
    /\ AppRuns
    /\ inputs < MaxInputs
    /\ inputs' = inputs + 1
    /\ statusChecks < MaxChecks
    /\ statusChecks' = statusChecks + 1
    /\ UNCHANGED <<tray, backendProcess, isQuitting, gotTheLock, lastStart, app, pathsOk, proc, orphan,
                   call, graceTimers, ready, trayProbes, markerTimers,
                   published, toggle, tooltip, lastProbe,
                   probevars>>

\* Its probe resolves to r: checkBackendStatus calls updateTrayMenu (a new
\* probe) and returns r.
CheckStatusDone(r) ==
    /\ AppRuns
    /\ statusChecks > 0
    /\ r \in ProbeResults
    /\ TrayRoom(1)
    /\ statusChecks' = statusChecks - 1
    /\ trayProbes' = TrayAfter(1)
    /\ lastProbe' = StatusOf(r)
    /\ UNCHANGED <<tray, backendProcess, isQuitting, gotTheLock, lastStart, app, pathsOk, proc, orphan,
                   call, graceTimers, ready, markerTimers, published, toggle, tooltip, inputs,
                   probevars>>

\* -------------------------------------------------------------- lifecycle
\* Boot's checkBackendStatus resolves to r.  Not running: startBackend() is
\* called and runs to its first await (killExistingBackends has issued its
\* kills).  Running: the handler arms the status timers.
BootProbeDone(r) ==
    /\ AppRuns
    /\ call[BootCall].pc = "boot_probe"
    /\ r \in ProbeResults
    /\ TrayRoom(1)
    /\ trayProbes' = TrayAfter(1)
    /\ lastProbe' = StatusOf(r)
    /\ IF r
       THEN /\ call' = [call EXCEPT ![BootCall] = Returned(BootCall)]
            /\ UNCHANGED <<proc, orphan>>
       ELSE /\ call' = [call EXCEPT ![BootCall].pc = "s_cleanup"]
            /\ proc' = KillExistingProcs
            /\ orphan' = FALSE
    /\ UNCHANGED <<tray, backendProcess, isQuitting, gotTheLock, lastStart, app, pathsOk, graceTimers,
                   ready, statusChecks, markerTimers, published, toggle, tooltip, inputs,
                   probevars>>

\* "Start Backend" of a tray menu built from a determination of Offline:
\* startBackend() runs to its first await.
StartCall(c) ==
    /\ AppRuns
    /\ inputs < MaxInputs
    /\ inputs' = inputs + 1
    /\ c # BootCall
    /\ call[c] = Idle
    /\ toggle = "Start Backend"
    /\ call' = [call EXCEPT ![c] = [op |-> "start", pc |-> "s_cleanup"]]
    /\ proc' = KillExistingProcs
    /\ orphan' = FALSE
    /\ UNCHANGED <<tray, backendProcess, isQuitting, gotTheLock, lastStart, app, pathsOk, graceTimers,
                   ready, trayProbes, statusChecks, markerTimers, published, toggle, tooltip,
                   lastProbe,
                   probevars>>

\* killExistingBackends' 2 s wait is over: the handle check, then the
\* re-check of the port by checkBackendStatus.
StartCleanupDone(c) ==
    /\ AppRuns
    /\ call[c].pc = "s_cleanup"
    /\ lastStart' = IF HandleHeld THEN "held" ELSE lastStart
    /\ call' = [call EXCEPT ![c] = IF HandleHeld THEN Returned(c)
                                   ELSE [@ EXCEPT !.pc = "s_probe"]]
    /\ UNCHANGED <<tray, backendProcess, isQuitting, gotTheLock, app, pathsOk, proc, orphan,
                   graceTimers, ready, trayProbes, statusChecks, markerTimers,
                   published, toggle, tooltip, lastProbe, inputs,
                   probevars>>

\* The re-check resolves to r.  Running: return.  Otherwise the paths are
\* validated (fs.existsSync) and the worker is spawned:
\* the handle is assigned and the readiness loop's first timer armed.
StartProbeDone(c, r) ==
    /\ AppRuns
    /\ call[c].pc = "s_probe"
    /\ r \in ProbeResults
    /\ TrayRoom(1)
    /\ trayProbes' = TrayAfter(1)
    /\ lastProbe' = StatusOf(r)
    /\ call' = [call EXCEPT ![c] = Returned(c)]
    /\ lastStart' = IF r THEN "running" ELSE IF PathsValid THEN "spawned" ELSE "nopaths"
    /\ IF r \/ ~PathsValid
       THEN UNCHANGED <<backendProcess, proc, ready>>
       ELSE /\ CanSpawn
            /\ backendProcess' = NextProc
            /\ proc' = [proc EXCEPT ![NextProc].st = "starting"]
            /\ ready' = [ready EXCEPT ![NextProc] = LoopArmed]
    /\ UNCHANGED <<tray, isQuitting, gotTheLock, app, pathsOk, orphan, graceTimers,
                   statusChecks, markerTimers, published, toggle, tooltip, inputs,
                   probevars>>

\* "if (code !== 0 && !isQuitting && tray)": the branch of the 'close'
\* handler that shows the crash balloon and refreshes the tray.
CrashPathWhileQuitting(code) == code # "zero" /\ tray
CrashPath(code) == code # "zero" /\ ~isQuitting /\ tray

\* What the 'error' handler of the spawned ChildProcess leaves in the handle.
AfterError == NoProc

\* The re-check says nothing runs, the paths are valid, and the OS refuses to
\* create the process (ENOENT, EACCES, ...): spawn returns a ChildProcess,
\* the handle is assigned and the first checkReady timer armed; on the next
\* tick, before any other callback, the 'error' handler clears the handle
\* and shows the error box.  The 'close' event of that ChildProcess (a
\* negative code) follows at once, its pipes having nothing behind them:
\* the 'close' handler clears the handle again and takes its crash branch.
StartSpawnRefused(c) ==
    /\ AppRuns
    /\ call[c].pc = "s_probe"
    /\ inputs < MaxInputs
    /\ inputs' = inputs + 1
    /\ PathsValid
    /\ CanSpawn
    /\ LET n == IF CrashPath("nonzero") THEN 2 ELSE 1
       IN /\ TrayRoom(n)
          /\ trayProbes' = TrayAfter(n)
    /\ lastProbe' = StatusOf(FALSE)
    /\ call' = [call EXCEPT ![c] = Returned(c)]
    /\ lastStart' = "refused"
    /\ backendProcess' = AfterError
    /\ proc' = [proc EXCEPT ![NextProc] = [st |-> "failed", code |-> "nonzero"]]
    /\ ready' = [ready EXCEPT ![NextProc] = LoopArmed]
    /\ UNCHANGED <<tray, isQuitting, gotTheLock, app, pathsOk, orphan, graceTimers,
                   statusChecks, markerTimers, published, toggle, tooltip,
                   probevars>>

\* The same, with spawn throwing instead (any other error of the spawn
\* call): the handle is not assigned, no handler is attached and no timer
\* armed; the catch block clears the handle.
StartSpawnThrows(c) ==
    /\ AppRuns
    /\ call[c].pc = "s_probe"
    /\ inputs < MaxInputs
    /\ inputs' = inputs + 1
    /\ PathsValid
    /\ TrayRoom(1)
    /\ trayProbes' = TrayAfter(1)
    /\ lastProbe' = StatusOf(FALSE)
    /\ call' = [call EXCEPT ![c] = Returned(c)]
    /\ lastStart' = "threw"
    /\ backendProcess' = NoProc
    /\ UNCHANGED <<tray, isQuitting, gotTheLock, app, pathsOk, proc, orphan, graceTimers,
                   ready, statusChecks, markerTimers, published, toggle, tooltip,
                   probevars>>

\* stopBackend() from "Stop Backend" of a tray menu built from Connected.
StopCall ==
    /\ AppRuns
    /\ inputs < MaxInputs
    /\ inputs' = inputs + 1
    /\ toggle = "Stop Backend"
    /\ StopBackendOn(proc)
    /\ UNCHANGED <<tray, isQuitting, gotTheLock, lastStart, app, pathsOk, orphan, call, ready,
                   trayProbes, statusChecks, markerTimers, published, toggle, tooltip,
                   lastProbe,
                   probevars>>

\* The grace timer of the stopBackend() that stopped process t fires.
GraceTimerFires(t) ==
    /\ AppRuns
    /\ t \in graceTimers
    /\ graceTimers' = graceTimers \ {t}
    /\ proc' = IF HandleHeld
               THEN [proc EXCEPT ![backendProcess].st = Kill(@, "SIGKILL")]
               ELSE proc
    /\ UNCHANGED <<tray, backendProcess, isQuitting, gotTheLock, lastStart, app, pathsOk, orphan, call,
                   ready, trayProbes, statusChecks, markerTimers, published, toggle, tooltip,
                   lastProbe, inputs,
                   probevars>>

\* restart-backend (IPC) or "Restart Backend" (menus): restartBackend() runs
\* to the await inside killExistingBackends.
RestartCall(c) ==
    /\ AppRuns
    /\ inputs < MaxInputs
    /\ inputs' = inputs + 1
    /\ c # BootCall
    /\ call[c] = Idle
    /\ call' = [call EXCEPT ![c] = [op |-> "restart", pc |-> "r_cleanup"]]
    /\ proc' = KillExistingProcs
    /\ orphan' = FALSE
    /\ UNCHANGED <<tray, backendProcess, isQuitting, gotTheLock, lastStart, app, pathsOk, graceTimers,
                   ready, trayProbes, statusChecks, markerTimers, published, toggle, tooltip,
                   lastProbe,
                   probevars>>

\* The cleanup wait is over: stopBackend(), then the 3 s settle delay.
RestartCleanupDone(c) ==
    /\ AppRuns
    /\ call[c].pc = "r_cleanup"
    /\ call' = [call EXCEPT ![c].pc = "r_settle"]
    /\ StopBackendOn(proc)
    /\ UNCHANGED <<tray, isQuitting, gotTheLock, lastStart, app, pathsOk, orphan, ready, trayProbes,
                   statusChecks, markerTimers, published, toggle, tooltip, lastProbe, inputs,
                   probevars>>

\* The settle delay is over: startBackend() runs to its first await.
RestartSettleDone(c) ==
    /\ AppRuns
    /\ call[c].pc = "r_settle"
    /\ call' = [call EXCEPT ![c].pc = "s_cleanup"]
    /\ proc' = KillExistingProcs
    /\ orphan' = FALSE
    /\ UNCHANGED <<tray, backendProcess, isQuitting, gotTheLock, lastStart, app, pathsOk, graceTimers,
                   ready, trayProbes, statusChecks, markerTimers, published, toggle, tooltip,
                   lastProbe, inputs,
                   probevars>>

\* The 'close' event of process p: the handle is cleared, and a non-zero
\* code (a signal gives null) outside quitting shows the crash balloon and
\* refreshes the tray.
CloseEvent(p, code) ==
    /\ AppRuns
    /\ proc[p].st \in {"exited", "killed"}
    /\ code \in (IF proc[p].st = "killed" THEN {"nonzero"} ELSE {"zero", "nonzero"})
    /\ LET refresh == CrashPath(code)
       IN /\ refresh => TrayRoom(1)
          /\ trayProbes' = IF refresh THEN TrayAfter(1) ELSE trayProbes
    /\ proc' = [proc EXCEPT ![p].st = "closed", ![p].code = code]
    /\ backendProcess' = AfterClose
    /\ call' = CallsAfterClose
    /\ UNCHANGED <<tray, isQuitting, gotTheLock, lastStart, app, pathsOk, orphan, graceTimers,
                   ready, statusChecks, markerTimers, published, toggle, tooltip, lastProbe, inputs,
                   probevars>>

\* ---------------------------------------------------------- readiness loop
\* A checkReady timer of the spawn of p fires: attempts++, then
\* checkBackendStatus starts its probe.
ReadyTimerFires(p) ==
    /\ AppRuns
    /\ ready[p].st = "timer"
    /\ ready' = [ready EXCEPT ![p].st = "probing", ![p].attempts = @ + 1]
    /\ UNCHANGED <<tray, backendProcess, isQuitting, gotTheLock, lastStart, app, pathsOk, proc, orphan,
                   call, graceTimers, trayProbes, statusChecks, markerTimers,
                   published, toggle, tooltip, lastProbe, inputs,
                   probevars>>

\* The retry test of checkReady after a probe that resolved to r.
RetriesWhileDown(p, r) == ~r
TryAgain(p, r) == ~r /\ ready[p].attempts < MaxReadyAttempts /\ HandleHeld

\* Its probe resolves to r: ready ("done", tray refreshed again), or another
\* timer, or 'Backend startup timeout or process died' ("timeout", tray
\* refreshed again).
ReadyProbeDone(p, r) ==
    /\ AppRuns
    /\ ready[p].st = "probing"
    /\ r \in ProbeResults
    /\ LET again == TryAgain(p, r)
           n == IF again THEN 1 ELSE 2
       IN /\ TrayRoom(n)
          /\ trayProbes' = TrayAfter(n)
          /\ ready' = [ready EXCEPT ![p].st = IF r THEN "done"
                                             ELSE IF again THEN "timer" ELSE "timeout",
                                    ![p].refreshes = IF tray THEN @ + n ELSE @]
    /\ lastProbe' = StatusOf(r)
    /\ UNCHANGED <<tray, backendProcess, isQuitting, gotTheLock, lastStart, app, pathsOk, proc, orphan,
                   call, graceTimers, statusChecks, markerTimers, published, toggle, tooltip, inputs,
                   probevars>>

SupNext ==
    \/ \E t \in BOOLEAN : AppReady(t)
    \/ BeforeQuit
    \/ WillQuit
    \/ \E p \in Procs : WorkerBinds(p)
    \/ \E p \in Procs : WorkerExits(p)
    \/ OrphanExits
    \/ \E p \in Procs : StdoutMarker(p)
    \/ \E p \in Procs : StderrMarker(p)
    \/ MarkerTimerFires
    \/ \E r \in BOOLEAN : TrayProbeDone(r)
    \/ PeriodicTick
    \/ CheckStatusCall
    \/ \E r \in BOOLEAN : CheckStatusDone(r)
    \/ \E r \in BOOLEAN : BootProbeDone(r)
    \/ \E c \in CallIds : StartCall(c)
    \/ \E c \in CallIds : StartCleanupDone(c)
    \/ \E c \in CallIds, r \in BOOLEAN : StartProbeDone(c, r)
    \/ \E c \in CallIds : StartSpawnRefused(c)
    \/ \E c \in CallIds : StartSpawnThrows(c)
    \/ StopCall
    \/ \E t \in Procs : GraceTimerFires(t)
    \/ \E c \in CallIds : RestartCall(c)
    \/ \E c \in CallIds : RestartCleanupDone(c)
    \/ \E c \in CallIds : RestartSettleDone(c)
    \/ \E p \in Procs, code \in {"zero", "nonzero"} : CloseEvent(p, code)
    \/ \E p \in Procs : ReadyTimerFires(p)
    \/ \E p \in Procs, r \in BOOLEAN : ReadyProbeDone(p, r)

\* ------------------------------------------------------------ the prober
\* checkBackendWithHttp's candidate hosts, in the order tried.
hostnames == <<"127.0.0.1", "localhost">>
\* The clients a determination can use: native http, then axios.
Transports == {"http", "axios"}
\* req.setTimeout(3000): the idle timeout of each native request's socket,
\* in force from the moment the socket is connected.
SocketTimeoutMs == 3000
\* timeout: 6000 in the request options: the socket's timeout from its
\* creation, in force while it is still connecting.
OptionsTimeoutMs == 6000
\* axios.get(..., { timeout: 3000 }).
AxiosTimeoutMs == 3000
\* Status codes a /health response can carry.
StatusCodes == {200, 204, 503}
\* Granularity of the clock.
TickMs == 1500

Hosts == 1..Len(hostnames)
\* A request: its state, and when its socket was last active (its creation,
\* its connection, or the arrival of its response).
NoReq == [st |-> "none", start |-> 0]
Connecting(t) == [st |-> "connecting", start |-> t]
Pending(t) == [st |-> "pending", start |-> t]
\* A native request that has delivered no event yet.
Waiting(r) == r.st \in {"connecting", "pending"}

\* "res.statusCode === 200", and axios's validateStatus / response.status.
IsUp(statusCode) == statusCode = 200

\* The 'timeout' handler calls tryNextHost() after req.destroy().
TimeoutOnlyDestroys == FALSE
TimeoutCallsTryNextHost == TRUE

\* When the timeout of a socket created at t and still connecting expires.
ConnectDeadline(t) == t + OptionsTimeoutMs
\* When the timeout of a connected socket last active at t expires.
HttpDeadlineFromOptions(t) == t + OptionsTimeoutMs
HttpDeadline(t) == t + SocketTimeoutMs
\* When the timeout of an axios request started at t expires.
AxiosDeadline(t) == t + AxiosTimeoutMs
\* When the 'timeout' event of native request r is due.
ReqDeadline(r) == IF r.st = "connecting" THEN ConnectDeadline(r.start)
                  ELSE HttpDeadline(r.start)

\* "attempts < hostnames.length" of tryNextHost, after attempts++.
HasNextHost(a) == a < Len(hostnames)

\* The hosts the axios fallback asks: the one of BACKEND_URL.
AxiosHosts == {"localhost"}

\* Native request h has ended in a failure: an answer other than 200, an
\* error or a timeout.
HostFailed(h) == req[h].st \in {"responded", "destroyed", "closed"}

\* The hosts the fallback transport has been tried on so far.
AxiosTried == IF axiosReq.st # "none" THEN AxiosHosts ELSE {}

\* Requests made so far by the probe, on both transports.
AttemptsMade == Cardinality({h \in Hosts : req[h].st # "none"})
                + (IF axiosReq.st # "none" THEN 1 ELSE 0)

\* Deadlines of the requests still waiting for their first event: time does
\* not pass them.
Deadlines == {ReqDeadline(req[h]) : h \in {g \in Hosts : Waiting(req[g])}}
             \cup (IF axiosReq.st = "pending" THEN {AxiosDeadline(axiosReq.start)} ELSE {})

\* When the idle sockets of answered requests would time out.
IdleDeadlines == {ReqDeadline(req[h]) : h \in {g \in Hosts : req[g].st = "responded"}}

Min(S) == CHOOSE x \in S : \A y \in S : x <= y

ProbeParked ==
    /\ caller = "none"
    /\ now = 0
    /\ attempts = 0
    /\ req = [h \in Hosts |-> NoReq]
    /\ httpResult = NoResult
    /\ axiosReq = NoReq
    /\ isBackendRunning = NoResult
    /\ resolvedAt = 0
    /\ got200 = FALSE

\* The supervisor at rest while one probe is followed.
SupParked == SupInit /\ pathsOk /\ ~orphan

\* checkBackendStatus ("status": native http only) or updateTrayMenu
\* ("tray": native http, then the axios fallback) starts a probe:
\* tryConnection(hostnames[0]).
ProbeStarts(who) ==
    /\ caller = "none" \/ isBackendRunning # NoResult
    /\ caller' = who
    /\ now' = 0
    /\ attempts' = 0
    /\ req' = [h \in Hosts |-> IF h = 1 THEN Connecting(0) ELSE NoReq]
    /\ httpResult' = NoResult
    /\ axiosReq' = NoReq
    /\ isBackendRunning' = NoResult
    /\ resolvedAt' = 0
    /\ got200' = FALSE
    /\ UNCHANGED supvars

\* An event handler of request h has run: the request is now in state st;
\* up: it called resolve(true); advance: it called tryNextHost(), which
\* counts, then tries the next host or calls resolve(false).  A resolve of
\* an already settled promise changes nothing.  The caller's continuation
\* runs with the settlement: checkBackendStatus returns the value;
\* updateTrayMenu keeps true and otherwise starts the axios fallback.
HandlerRan(h, st, up, advance) ==
    LET a == IF advance THEN attempts + 1 ELSE attempts
        launch == advance /\ HasNextHost(a)
        settles == httpResult = NoResult /\ (up \/ (advance /\ ~launch))
        fallback == settles /\ ~up /\ caller = "tray"
    IN /\ attempts' = a
       /\ req' = [g \in Hosts |->
                    IF g = h THEN [st |-> st, start |-> now]
                    ELSE IF launch /\ g = a + 1 THEN Connecting(now)
                    ELSE req[g]]
       /\ httpResult' = IF settles THEN StatusOf(up) ELSE httpResult
       /\ axiosReq' = IF fallback THEN Pending(now) ELSE axiosReq
       /\ isBackendRunning' = IF settles /\ ~fallback THEN StatusOf(up)
                              ELSE isBackendRunning
       /\ resolvedAt' = IF settles /\ ~fallback THEN now ELSE resolvedAt
       /\ UNCHANGED <<caller, now>>

\* The socket of request h connects: from now on the idle timeout set by
\* req.setTimeout is the one in force.
SocketConnects(h) ==
    /\ req[h].st = "connecting"
    /\ req' = [req EXCEPT ![h] = Pending(now)]
    /\ UNCHANGED <<caller, now, attempts, httpResult, axiosReq, isBackendRunning,
                   resolvedAt, got200, supvars>>

\* The response callback of request h, with the response's status code.
RequestResponds(h, statusCode) ==
    /\ req[h].st = "pending"
    /\ got200' = (got200 \/ statusCode = 200)
    /\ HandlerRan(h, "responded", IsUp(statusCode), ~IsUp(statusCode))
    /\ UNCHANGED supvars

\* The 'error' handler of request h: a transport error.
RequestErrors(h) ==
    /\ Waiting(req[h])
    /\ HandlerRan(h, "closed", FALSE, TRUE)
    /\ UNCHANGED <<got200, supvars>>

\* The 'timeout' handler of request h: req.destroy(), then tryNextHost().
RequestTimesOut(h) ==
    /\ Waiting(req[h])
    /\ now = ReqDeadline(req[h])
    /\ HandlerRan(h, "destroyed", FALSE, TimeoutCallsTryNextHost)
    /\ UNCHANGED <<got200, supvars>>

\* req.destroy() before any response makes the request emit 'error'
\* (socket hang up) on the next tick: the 'error' handler runs for the same
\* request.
DestroyRaisesError(h) ==
    /\ req[h].st = "destroyed"
    /\ HandlerRan(h, "closed", FALSE, TRUE)
    /\ UNCHANGED <<got200, supvars>>

\* A runtime whose destroy() tears the request down without an 'error'.
DestroyIsSilent(h) ==
    /\ req[h].st = "destroyed"
    /\ req' = [req EXCEPT ![h].st = "closed"]
    /\ UNCHANGED <<caller, now, attempts, httpResult, axiosReq, isBackendRunning,
                   resolvedAt, got200, supvars>>

\* The response body is never read, so the socket of an answered request
\* can stay open and idle until its timeout: the 'timeout' handler then runs
\* after the response callback of the same request.
TimeoutAfterResponse(h) ==
    /\ req[h].st = "responded"
    /\ now = ReqDeadline(req[h])
    /\ HandlerRan(h, "closed", FALSE, TimeoutCallsTryNextHost)
    /\ UNCHANGED <<got200, supvars>>

\* The axios fallback gets a response: validateStatus accepts only 200, any
\* other status rejects and is caught.
AxiosResponds(statusCode) ==
    /\ axiosReq.st = "pending"
    /\ axiosReq' = [axiosReq EXCEPT !.st = "closed"]
    /\ got200' = (got200 \/ statusCode = 200)
    /\ isBackendRunning' = StatusOf(IsUp(statusCode))
    /\ resolvedAt' = now
    /\ UNCHANGED <<caller, now, attempts, req, httpResult, supvars>>

\* The axios fallback rejects: a transport error, or its timeout.
AxiosFails(timedOut) ==
    /\ axiosReq.st = "pending"
    /\ timedOut => now = AxiosDeadline(axiosReq.start)
    /\ axiosReq' = [axiosReq EXCEPT !.st = "closed"]
    /\ isBackendRunning' = StatusOf(FALSE)
    /\ resolvedAt' = now
    /\ UNCHANGED <<caller, now, attempts, req, httpResult, got200, supvars>>

\* Time passes, up to the next moment a timeout can fire; never past the
\* deadline of a waiting request, nor while a destroyed request has its
\* next-tick 'error' outstanding.
Tick ==
    LET ahead == {t \in Deadlines \cup IdleDeadlines : t > now}
    IN /\ ahead # {}
       /\ \A t \in Deadlines : now < t
       /\ \A h \in Hosts : req[h].st # "destroyed"
       /\ now' = Min(ahead \cup {now + TickMs})
    /\ UNCHANGED <<caller, attempts, req, httpResult, axiosReq, isBackendRunning,
                   resolvedAt, got200, supvars>>

ProbeNext ==
    \/ \E who \in {"status", "tray"} : ProbeStarts(who)
    \/ \E h \in Hosts : SocketConnects(h)
    \/ \E h \in Hosts, statusCode \in StatusCodes : RequestResponds(h, statusCode)
    \/ \E h \in Hosts : RequestErrors(h)
    \/ \E h \in Hosts : RequestTimesOut(h)
    \/ \E h \in Hosts : DestroyRaisesError(h)
    \/ \E h \in Hosts : DestroyIsSilent(h)
    \/ \E h \in Hosts : TimeoutAfterResponse(h)
    \/ \E statusCode \in StatusCodes : AxiosResponds(statusCode)
    \/ \E timedOut \in BOOLEAN : AxiosFails(timedOut)
    \/ Tick

\* ------------------------------------------------------- specifications
\* ---------------------------------------------------------------- renderer
\* The page as its HTML declares it, before DOMContentLoaded: the badge
\* has the class status-indicator and the text 'Connecting...'; no health
\* check has been made.  A class list and a text are tuples of their parts.
NoCheck == [st |-> "idle", status |-> 0]
RendererParked ==
    /\ loaded = FALSE
    /\ backendStatus = [className |-> <<"status-indicator">>, textContent |-> <<"Connecting...">>]
    /\ health = [c \in Checks |-> NoCheck]

\* setBackendStatus(status, text) on the element the page declares.
setBackendStatus(status, text) ==
    backendStatus' = [className |-> <<"status-indicator", status>>, textContent |-> text]

\* response.ok of fetch: a status in the range 200-299.
ResponseOk(status) == status >= 200 /\ status <= 299

\* The check that the next updateBackendStatus() call is.
NextCheck == CHOOSE c \in Checks : health[c].st = "idle" /\ \A d \in Checks : d < c => health[d].st # "idle"

\* DOMContentLoaded: initializeBackendStatus() sets 'Connecting...', makes the
\* first updateBackendStatus() call (its fetch is sent) and arms the interval.
initializeBackendStatus ==
    /\ ~loaded
    /\ loaded' = TRUE
    /\ setBackendStatus("connecting", <<"Connecting...">>)
    /\ health' = [health EXCEPT ![1].st = "fetching"]
    /\ UNCHANGED mainvars

\* A tick of setInterval(updateBackendStatus, BACKEND_CHECK_INTERVAL): the
\* next call sends its fetch, whatever earlier calls are still awaiting.
updateBackendStatus ==
    /\ loaded
    /\ \E c \in Checks : health[c].st = "idle"
    /\ health' = [health EXCEPT ![NextCheck].st = "fetching"]
    /\ UNCHANGED <<loaded, backendStatus, mainvars>>

\* fetch resolves with a response of the given status: the abort timer is
\* cleared; an ok response goes on to response.json(), any other sets
\* disconnected with 'Error <status>'.
FetchResponds(c, status) ==
    /\ health[c].st = "fetching"
    /\ status \in HttpStatuses
    /\ IF ResponseOk(status)
          THEN /\ health' = [health EXCEPT ![c] = [st |-> "reading", status |-> status]]
               /\ UNCHANGED backendStatus
          ELSE /\ health' = [health EXCEPT ![c] = [st |-> "done", status |-> status]]
               /\ setBackendStatus("disconnected", <<"Error", status>>)
    /\ UNCHANGED <<loaded, mainvars>>

\* The 5000 ms timer aborts the fetch: AbortError, 'Connection timeout'.
FetchAborts(c) ==
    /\ health[c].st = "fetching"
    /\ health' = [health EXCEPT ![c].st = "done"]
    /\ setBackendStatus("disconnected", <<"Connection timeout">>)
    /\ UNCHANGED <<loaded, mainvars>>

\* fetch rejects (connection refused, reset): 'Backend Offline'.
FetchFails(c) ==
    /\ health[c].st = "fetching"
    /\ health' = [health EXCEPT ![c].st = "done"]
    /\ setBackendStatus("disconnected", <<"Backend Offline">>)
    /\ UNCHANGED <<loaded, mainvars>>

\* response.json() resolves: 'Connected'.
JsonResolves(c) ==
    /\ health[c].st = "reading"
    /\ health' = [health EXCEPT ![c].st = "done"]
    /\ setBackendStatus("connected", <<"Connected">>)
    /\ UNCHANGED <<loaded, mainvars>>

\* response.json() rejects (the body is not JSON, or its stream breaks
\* off): the catch block, error.name is not AbortError, 'Backend Offline'.
JsonRejects(c) ==
    /\ health[c].st = "reading"
    /\ health' = [health EXCEPT ![c].st = "done"]
    /\ setBackendStatus("disconnected", <<"Backend Offline">>)
    /\ UNCHANGED <<loaded, mainvars>>

\* The renderer alone, from the loading of the page on.
BadgeNext ==
    \/ initializeBackendStatus
    \/ updateBackendStatus
    \/ \E c \in Checks, status \in HttpStatuses : FetchResponds(c, status)
    \/ \E c \in Checks : FetchAborts(c)
    \/ \E c \in Checks : FetchFails(c)
    \/ \E c \in Checks : JsonResolves(c)
    \/ \E c \in Checks : JsonRejects(c)

\* --------------------------------------------------------- specifications
Init == SupInit /\ ProbeParked /\ RendererParked
Next == SupNext
Spec == Init /\ [][Next]_vars

BadgeInit == SupParked /\ ProbeParked /\ RendererParked
BadgeSpec == BadgeInit /\ [][BadgeNext]_vars

ProbeInit == SupParked /\ ProbeParked /\ RendererParked
ProbeSpec == ProbeInit /\ [][ProbeNext]_vars

\* Node delivers every timer and finishes every destroy: time passes, a
\* socket or axios timeout that is due fires, a destroyed request is torn
\* down.  Responses and errors are up to the network.
ProbeFairness ==
    /\ WF_vars(Tick)
    /\ \A h \in Hosts : WF_vars(RequestTimesOut(h))
    /\ \A h \in Hosts : WF_vars(DestroyRaisesError(h) \/ DestroyIsSilent(h))
    /\ WF_vars(AxiosFails(TRUE))
ProbeFairSpec == ProbeSpec /\ ProbeFairness

\* The supervisor over an unbounded time, booted with the port free and the
\* worker's files in place and left to itself (no Start, Stop, Restart or
\* Quit from the user), while the health endpoint is dependable: a probe
\* that completes reports whether something answers on the port.
LiveInit == SupInit /\ pathsOk /\ ~orphan /\ ProbeParked /\ RendererParked
Answer == PortAnswered
LiveNext ==
    \/ \E t \in BOOLEAN : AppReady(t)
    \/ \E p \in Procs : WorkerBinds(p)
    \/ \E p \in Procs : WorkerExits(p)
    \/ \E p \in Procs : StdoutMarker(p)
    \/ \E p \in Procs : StderrMarker(p)
    \/ MarkerTimerFires
    \/ TrayProbeDone(Answer)
    \/ IntervalTick
    \/ CheckStatusCall
    \/ CheckStatusDone(Answer)
    \/ BootProbeDone(Answer)
    \/ \E c \in CallIds : StartCleanupDone(c)
    \/ \E c \in CallIds : StartProbeDone(c, Answer)
    \/ \E p \in Procs, code \in {"zero", "nonzero"} : CloseEvent(p, code)
    \/ \E p \in Procs : ReadyTimerFires(p)
    \/ \E p \in Procs : ReadyProbeDone(p, Answer)

\* Node runs every callback that is due: timers fire, awaits resume, probes
\* complete, process events are delivered.  What the user and the worker do
\* is up to them.
LiveFairness ==
    /\ WF_vars(\E t \in BOOLEAN : AppReady(t))
    /\ WF_vars(MarkerTimerFires)
    /\ WF_vars(TrayProbeDone(Answer))
    /\ WF_vars(IntervalTick)
    /\ WF_vars(CheckStatusDone(Answer))
    /\ WF_vars(BootProbeDone(Answer))
    /\ \A c \in CallIds : WF_vars(StartCleanupDone(c))
    /\ \A c \in CallIds : WF_vars(StartProbeDone(c, Answer))
    /\ \A p \in Procs : WF_vars(\E code \in {"zero", "nonzero"} : CloseEvent(p, code))
    /\ \A p \in Procs : WF_vars(ReadyTimerFires(p))
    /\ \A p \in Procs : WF_vars(ReadyProbeDone(p, Answer))
LiveSpec == LiveInit /\ [][LiveNext]_vars /\ LiveFairness

\* The instance that did not get the single-instance lock.
SecondStart == SecondInit /\ ProbeParked /\ RendererParked
SecondSpec == SecondStart /\ [][Next]_vars


\* ================================================================ claims
\* A step in which call c spawns a worker: c leaves the re-check and a
\* process is born.
SpawnsIn(c) == /\ call[c].pc = "s_probe"
               /\ call'[c] # call[c]
               /\ \E p \in Procs : proc[p].st = "unborn" /\ proc'[p].st = "starting"

\* A step in which the grace timer armed when t was stopped fires.
GraceFiresFor(t) == t \in graceTimers /\ t \notin graceTimers'

\* C1: for any interleaving of start() and restart() calls, at most one
\* worker spawned by the supervisor is alive (spawned and not yet exited).
C1_AtMostOneLiveWorker == Cardinality(AliveWorkers) <= 1

\* C2: start() on an already-Running worker is a no-op: the step that calls
\* startBackend while the held worker answers on the port leaves every
\* process as it was (nothing terminated, nothing spawned).
C2_StartOnRunningIsNoOp ==
    [][\A c \in CallIds :
          (/\ call[c] = Idle
           /\ call'[c] = [op |-> "start", pc |-> "s_cleanup"]
           /\ HandleHeld
           /\ proc[backendProcess].st = "listening")
          => proc' = proc]_vars

\* C3: when restart() spawns the new worker, every worker spawned before has
\* exited or has been sent a forceful kill, i.e. none is still alive.
C3_RestartSpawnsAfterExit ==
    [][\A c \in CallIds :
          (call[c].op = "restart" /\ SpawnsIn(c)) => AliveWorkers = {}]_vars

\* C4: when the grace timer of a stop() expires and the worker that stop()
\* signalled has not exited, that worker is sent a forceful kill.
C4_GraceTimerKillsStopped ==
    [][\A t \in Procs :
          (GraceFiresFor(t) /\ Alive(t)) => proc'[t].st = "killed"]_vars

\* C5: when the worker a stop() signalled has exited before the grace timer
\* of that stop() fires, the timer issues no forceful kill.
C5_NoKillAfterExit ==
    [][\A t \in Procs :
          (GraceFiresFor(t) /\ ~Alive(t)) => proc' = proc]_vars

\* C6: once a status is published, it is the result of the probe that
\* completed most recently, whoever started that probe.
C6_PublishedIsLatestProbe ==
    (published # NoResult /\ lastProbe # NoResult) => published = lastProbe

\* C7: at most one probe of the Status Synchronizer (updateTrayMenu) is in
\* flight at any time.
C7_SingleFlightStatusProbe == trayProbes <= 1

\* The probe has made its determination.
Determined == isBackendRunning # NoResult

\* C8: every probe call resolves, and resolves to false unless a 200 was
\* received: whatever events its requests deliver (a response of any status,
\* an error, a timeout, several of them for one request), a probe in flight
\* leads to a determination, and a determination of "up" has seen a 200.
C8_ProbeAlwaysResolves ==
    /\ [](isBackendRunning = "Connected" => got200)
    /\ (caller # "none" /\ ~Determined) ~> Determined

\* C8's case: a determination of false after tryNextHost ran more often than
\* there are hosts, i.e. some request delivered more than one event.
C8_Witness == isBackendRunning = "Offline" /\ attempts > Len(hostnames)

\* The per-attempt timeout: the longest timeout the prober configures for
\* an attempt.
PerAttemptTimeoutMs ==
    CHOOSE t \in {SocketTimeoutMs, OptionsTimeoutMs, AxiosTimeoutMs} :
        \A u \in {SocketTimeoutMs, OptionsTimeoutMs, AxiosTimeoutMs} : u <= t

C10_UpIffSome200 == Determined => (isBackendRunning = "Connected" <=> got200)

\* C11: a determination of "unreachable" is made only after every candidate
\* host has failed on the native transport and every candidate host has then
\* been tried on the fallback transport, whoever called the prober.
C11_DownOnlyAfterAllTried ==
    isBackendRunning = "Offline" =>
        /\ \A h \in Hosts : HostFailed(h)
        /\ {hostnames[h] : h \in Hosts} \subseteq AxiosTried

\* A step in which a startBackend() call begins: it runs killExistingBackends
\* up to its wait.
StartBackendBegins ==
    \E c \in CallIds : call[c].pc # "s_cleanup" /\ call'[c].pc = "s_cleanup"

\* A step in which a worker process is created.
SpawnHappens == \E p \in Procs : proc[p].st = "unborn" /\ proc'[p].st # "unborn"

\* C12: an instance that did not get the single-instance lock never runs
\* startBackend (so no cleanup against the lock holder's worker) and never
\* spawns a worker.
C12_NoLockNoWorker ==
    [][~gotTheLock => (~StartBackendBegins /\ ~SpawnHappens)]_vars

\* A step in which startBackend() is called by boot or by "Start Backend"
\* (not as the last stage of a restart).
StartCalled ==
    \E c \in CallIds : /\ call[c].pc \in {"idle", "boot_probe"}
                       /\ call'[c].pc = "s_cleanup"
                       /\ call'[c].op \in {"boot", "start"}

\* C13: when start() is called while a worker answers on the port, no
\* process is created and the answering worker is left running: the call
\* leaves every process as it was.
C13_StartKeepsAnsweringWorker ==
    [][(StartCalled /\ PortAnswered) => (orphan' = orphan /\ proc' = proc)]_vars

\* C14: when the worker's executable or entry script is missing, start()
\* creates no process, leaves the handle empty and starts no readiness loop,
\* and nothing retries it: no worker ever exists.
C14_MissingFilesFailFast ==
    ~pathsOk => /\ \A p \in Procs : proc[p].st = "unborn" /\ ready[p] = NoLoop
                /\ backendProcess = NoProc

\* C14's case: boot's startBackend() got as far as the validation of the
\* paths, found a file missing and returned.
C14_Witness ==
    ~pathsOk /\ lastStart = "nopaths" /\ call[BootCall].pc = "done"

\* The application runs with its tray and a worker answers on the port.
WorkerAnswering == AppRuns /\ tray /\ \E p \in Procs : proc[p].st = "listening"

\* C15: booted with no worker and the port free, the supervisor spawns a
\* worker (as long as the application keeps running); and if a worker comes
\* to answer and keeps answering, the published status eventually is
\* Connected and stays Connected.
C15_EventuallyConnected ==
    /\ <>[]AppRuns => <>(\E p \in Procs : Spawned(p))
    /\ <>[]WorkerAnswering => <>[](published = "Connected")

\* C15's case: the worker spawned by boot answers, its readiness loop has
\* ended and Connected is published.
C15_Witness ==
    /\ proc[1].st = "listening"
    /\ ready[1].st = "done"
    /\ published = "Connected"
    /\ inputs = 0

\* A step in which an updateTrayMenu call completes and sets the menu.
TrayProbeCompletes == trayProbes' < trayProbes /\ app' = "running"

\* A step in which the 'close' event of process p is handled.
CloseHandled(p) == proc[p].st \in {"exited", "killed"} /\ proc'[p].st = "closed"

\* C16: once the worker is gone (nothing answers on the port), a status
\* tick that completes publishes Offline; and the worker's exit event clears
\* the process handle, whether or not a tick has run.
C16_ExitSeenAndHandleCleared ==
    [][/\ (TrayProbeCompletes /\ ~PortAnswered) => published' = "Offline"
       /\ \A p \in Procs : CloseHandled(p) => backendProcess' = NoProc]_vars

\* C16's case: the worker spawned by boot was found ready (it answered),
\* then died with no command from the supervisor; the ticks in flight have
\* completed and published Offline, the exit event is still to come.
C16_Witness ==
    /\ proc[1].st = "exited"
    /\ backendProcess = 1
    /\ ready[1].st = "done" /\ ready[1].attempts = 1
    /\ inputs = 0
    /\ trayProbes = 0
    /\ published = "Offline"

\* A step in which stopBackend() is called: by before-quit, or by
\* restartBackend after its cleanup.
StopInvoked ==
    \/ ~isQuitting /\ isQuitting'
    \/ \E c \in CallIds : call[c].pc = "r_cleanup" /\ call'[c].pc = "r_settle"

\* C17: stop() with no handle held sends no signal, arms no grace timer and
\* leaves the handle and every process as they were.
C17_StopWithoutHandleIsNoOp ==
    [][(StopInvoked /\ ~HandleHeld) =>
          (proc' = proc /\ graceTimers' = graceTimers
           /\ backendProcess' = backendProcess)]_vars

\* C17's case: a restart issued before any worker was spawned has called
\* stopBackend() with the handle empty, and waits out its settle delay.
C17_Witness ==
    /\ \E c \in CallIds : call[c] = [op |-> "restart", pc |-> "r_settle"]
    /\ \A p \in Procs : proc[p].st = "unborn"
    /\ backendProcess = NoProc
    /\ graceTimers = {}

CheckStatusReturns == statusChecks' < statusChecks /\ app' = "running"

\* C19: a checkStatus() call makes one prober call only, and what it
\* returns is what is published: when it returns, with a tray to publish
\* on, no further probe has been started and the published status is the
\* returned determination.
C19_CheckStatusOneProbe ==
    [][(CheckStatusReturns /\ tray) =>
          (trayProbes' = trayProbes /\ published' = lastProbe')]_vars

\* A step in which the restart-backend handler gets restartBackend()'s
\* result and returns {success: true}.
RestartReturns(c) == call[c].op = "restart" /\ call'[c] = Idle /\ app' = "running"

\* C20: the restart command returns without waiting for a readiness probe:
\* when it returns having spawned the new worker, the readiness loop of that
\* worker has its first check armed and has made no probe yet.
C20_RestartReturnsBeforeReady ==
    [][\A c \in CallIds :
          (RestartReturns(c) /\ SpawnHappens) =>
              \A p \in Procs : (proc[p].st = "unborn" /\ proc'[p].st # "unborn") =>
                                  ready'[p] = [st |-> "timer", attempts |-> 0,
                                               refreshes |-> 0]]_vars

\* C20's case: the one command given was a restart; it stopped the worker
\* spawned by boot, spawned the second worker and has returned, and the new
\* worker's readiness loop has not probed yet.
C20_Witness ==
    /\ inputs = 1
    /\ ~isQuitting
    /\ graceTimers = {1}
    /\ proc[2].st = "starting"
    /\ backendProcess = 2
    /\ ready[2] = [st |-> "timer", attempts |-> 0, refreshes |-> 0]
    /\ \A c \in CallIds : call[c] = Returned(c)

\* C21: a worker is spawned only while the supervisor holds no handle: no
\* spawn overwrites the handle of an earlier worker.
C21_SpawnOnlyWithoutHandle == [][SpawnHappens => ~HandleHeld]_vars

\* The boot scenario with the readiness loop on its own: the worker, the
\* callbacks of boot and of the loop, and the tray refreshes they start; no
\* interval tick and no status check is due meanwhile.
LoopNext ==
    \/ \E t \in BOOLEAN : AppReady(t)
    \/ \E p \in Procs : WorkerBinds(p)
    \/ \E p \in Procs : WorkerExits(p)
    \/ \E p \in Procs : StdoutMarker(p)
    \/ \E p \in Procs : StderrMarker(p)
    \/ MarkerTimerFires
    \/ TrayProbeDone(Answer)
    \/ BootProbeDone(Answer)
    \/ \E c \in CallIds : StartCleanupDone(c)
    \/ \E c \in CallIds : StartProbeDone(c, Answer)
    \/ \E p \in Procs, code \in {"zero", "nonzero"} : CloseEvent(p, code)
    \/ \E p \in Procs : ReadyTimerFires(p)
    \/ \E p \in Procs : ReadyProbeDone(p, Answer)
LoopFairness ==
    /\ WF_vars(MarkerTimerFires)
    /\ WF_vars(TrayProbeDone(Answer))
    /\ \A p \in Procs : WF_vars(ReadyTimerFires(p))
    /\ \A p \in Procs : WF_vars(ReadyProbeDone(p, Answer))
LoopSpec == LiveInit /\ [][LoopNext]_vars /\ LoopFairness

\* A checkReady timer of the loop of p fires and its probe starts.
LoopTickProbes(p) == ready[p].st = "timer" /\ ready'[p].st = "probing"

LoopRunning(p) == ready[p].st \in {"timer", "probing"}
LoopExhausted(p) == ready[p].st = "timeout" /\ ready[p].attempts = MaxReadyAttempts
LoopProbeResolves(p) == ready[p].st = "probing" /\ ready'[p].st # "probing" /\ app' = "running"

\* C22: the readiness loop of one spawn makes at most maxAttempts probes, the
\* first one after the initial timer and each later one after a timer armed
\* when the previous probe resolved; it stops on the first success, when the
\* attempts are used up or when the handle is cleared, and it always ends.
C22_ReadinessLoopBounded ==
    /\ [](\A p \in Procs :
            /\ ready[p].attempts <= MaxReadyAttempts
            /\ ready[p].st = "timer" => ready[p].attempts < MaxReadyAttempts
            /\ ready[p].st = "probing" => ready[p].attempts >= 1)
    /\ [][\A p \in Procs :
            /\ LoopTickProbes(p) => ready'[p].attempts = ready[p].attempts + 1
            /\ ready'[p].attempts # ready[p].attempts /\ app' = "running" =>
                  /\ ready[p].st = "timer" \/ ready'[p] = LoopArmed
                  /\ ready'[p].st = "probing" \/ ready'[p] = LoopArmed
            /\ LoopProbeResolves(p) =>
                  /\ ready'[p].st \in {"timer", "done", "timeout"}
                  /\ ready'[p].st = "done" <=> lastProbe' = "Connected"
                  /\ ready'[p].st # "timer" <=>
                        \/ lastProbe' = "Connected"
                        \/ ready[p].attempts = MaxReadyAttempts
                        \/ ~HandleHeld]_vars
    /\ \A p \in Procs : LoopRunning(p) ~> ~LoopRunning(p)
C22_Witness ==
    \E p \in Procs : LoopExhausted(p) /\ lastProbe = "Offline" /\ HandleHeld /\ AppRuns

\* C23: the probes one readiness loop causes are never in flight together:
\* when a tick of the loop starts its probe, no probe started by an earlier
\* tick of the same loop is still in flight.
C23_LoopProbesSequential ==
    [][\A p \in Procs : LoopTickProbes(p) => ready[p].refreshes = 0]_vars

\* The readiness loop of p gives up with its attempts used up.
LoopExhausts(p) == ~LoopExhausted(p) /\ LoopExhausted(p)'

\* C24: giving up after the last readiness attempt signals no process and
\* leaves the handle as it is; and when the worker whose loop gave up comes
\* to answer, a later tick publishes Connected (unless it stops answering).
C24_ExhaustionIsNotFatal ==
    /\ [][\A p \in Procs : LoopExhausts(p) =>
             /\ proc' = proc
             /\ backendProcess' = backendProcess
             /\ graceTimers' = graceTimers]_vars
    /\ \A p \in Procs :
          (LoopExhausted(p) /\ WorkerAnswering) ~>
              (published = "Connected" \/ ~WorkerAnswering)

\* C24's case: the loop of the worker held gave up while the worker was not
\* answering; the worker answers now and Connected is published.
C24_Witness ==
    \E p \in Procs :
        /\ LoopExhausted(p)
        /\ backendProcess = p
        /\ proc[p].st = "listening"
        /\ published = "Connected"

\* A step in which a handler of the worker's output sees a marker.
MarkerSeen ==
    /\ inputs' = inputs + 1
    /\ UNCHANGED <<proc, orphan, call, statusChecks, isQuitting, trayProbes, graceTimers>>

\* C25: a marker in the worker's output publishes nothing and starts no
\* probe at once (a success marker arms the timer of a tray refresh, a
\* failure marker does nothing); the published status changes only when a
\* tray probe completes, and it becomes Connected only when that probe got
\* an answer from the port.
C25_MarkersAreNotReadiness ==
    [][/\ MarkerSeen => /\ published' = published
                        /\ ready' = ready
                        /\ markerTimers' \in {markerTimers, markerTimers + 1}
       /\ published' # published => TrayProbeCompletes
       /\ (published' = "Connected" /\ published' # published) => PortAnswered]_vars

\* C25's case: a live worker that does not answer has printed its success
\* marker, the refresh armed by the marker has run, and Offline is published.
C25_Witness ==
    /\ inputs = 1
    /\ markerTimers = 0
    /\ trayProbes = 0
    /\ \E p \in Procs : proc[p].st = "starting" /\ ready[p].st = "timer" /\ ready[p].attempts = 0
    /\ published = "Offline"
    /\ call[BootCall].pc = "done"
    /\ ~orphan

\* A step in which the OS refuses the spawn of p ('error' event), and one
\* in which the spawn call throws.
SpawnRefused(p) == proc[p].st = "unborn" /\ proc'[p].st = "failed"
SpawnThrew ==
    /\ lastStart' = "threw"
    /\ \E c \in CallIds : call[c].pc = "s_probe" /\ call'[c] = Returned(c)

\* C26: when the OS refuses to create the worker, the handle is cleared, the
\* readiness loop of that spawn arms no further timer, and the failure
\* starts no startBackend(): one begins only at boot, in a restart or when
\* the user asks for it.
C26_SpawnFailureEndsStart ==
    [][/\ (SpawnThrew \/ \E p \in Procs : SpawnRefused(p)) => backendProcess' = NoProc
       /\ \A p \in Procs :
             (proc[p].st = "failed" /\ LoopProbeResolves(p)) => ready'[p].st # "timer"
       /\ (SpawnThrew \/ \E p \in Procs : SpawnRefused(p)) =>
             /\ ~StartBackendBegins
             /\ \A c \in CallIds : call'[c] \in {call[c], Returned(c)}
       /\ StartBackendBegins =>
             \/ inputs' = inputs + 1
             \/ \E c \in CallIds : call[c].pc \in {"boot_probe", "r_settle"}]_vars

\* A step in which the 'close' handler takes its crash branch: the balloon
\* (where the platform has one) and the tray refresh.
CrashPathTaken(p) == CloseHandled(p) /\ trayProbes' = trayProbes + 1

C28_MenuFromOneDetermination ==
    /\ [](published # NoResult =>
            /\ tooltip = published
            /\ toggle = (IF published = "Connected" THEN "Stop Backend" ELSE "Start Backend"))
    /\ [][(<<published, toggle, tooltip>>' # <<published, toggle, tooltip>> /\ tray) =>
            /\ TrayProbeCompletes
            /\ published' = lastProbe'
            /\ tooltip' = lastProbe'
            /\ toggle' = (IF lastProbe' = "Connected" THEN "Stop Backend" ELSE "Start Backend")]_vars

\* C28's case: a menu built from Offline has been replaced by one built from
\* Connected while no worker handle is held (a foreign process answers).
C28_Witness ==
    /\ published = "Connected"
    /\ toggle = "Stop Backend"
    /\ tooltip = "Connected"
    /\ ~HandleHeld
    /\ lastStart = "running"

\* C29: the grace timer armed by the stopBackend() that stopped t signals
\* no worker spawned after it (process ids grow with the order of spawning).
C29_GraceTimerSparesLaterWorker ==
    [][\A t \in Procs :
          GraceFiresFor(t) => \A p \in Procs : p > t => proc'[p] = proc[p]]_vars

\* C30: the handling of a 'close' or 'error' event of a worker leaves the
\* handle alone when the handle refers to a worker spawned later.
C30_OldEventKeepsNewHandle ==
    [][\A p \in Procs :
          ((CloseHandled(p) \/ SpawnRefused(p)) /\ backendProcess > p) =>
              backendProcess' = backendProcess]_vars

\* A step inside one checkBackendWithHttp call (not the start of a call).
SameProbe == caller' = caller /\ ~(isBackendRunning # NoResult /\ isBackendRunning' = NoResult)

\* C31: within one checkBackendWithHttp call every host is tried at most
\* once and in the order of the list, and the call resolves false only when
\* the request to the last host has failed, whatever events one request
\* delivers.
C31_HostsOnceInOrderThenFalse ==
    /\ [](httpResult = "Offline" => HostFailed(Len(hostnames)))
    /\ [][SameProbe =>
            \A h \in Hosts :
                (req'[h].st = "connecting" /\ req[h] # req'[h]) =>
                    /\ req[h].st = "none"
                    /\ \A g \in Hosts : g < h => req[g].st # "none"]_vars

\* The supervisor asked for the end of p: p was killed forcefully (by
\* killExistingBackends or by a grace timer), or stopBackend() signalled it
\* and the grace timer of that stop is still pending.
ExitRequested(p) == proc[p].st = "killed" \/ p \in graceTimers

\* C32: the 'close' handler takes its crash branch ('stopped unexpectedly')
\* only for exits the supervisor did not ask for.
C32_NoCrashNoticeForRequestedExit ==
    [][\A p \in Procs : CrashPathTaken(p) => ~ExitRequested(p)]_vars

\* C33: once quitting has begun no worker is spawned any more, and when the
\* application has exited (no timer or handler of the supervisor is left to
\* terminate anything) no worker it spawned is alive.
C33_QuitLeavesNoWorker ==
    /\ [](app = "exited" => AliveWorkers = {})
    /\ [][isQuitting => ~SpawnHappens]_vars

\* The readiness loops (checkReady closures) that still have a timer or a
\* probe pending.
ActiveLoops == {p \in Procs : LoopRunning(p)}

\* The loop of the spawn of p goes on for its worker: it arms another timer
\* or reports 'Backend is ready!'.
LoopGoesOn(p) == LoopProbeResolves(p) /\ ready'[p].st \in {"timer", "done"}

\* C34: at most one readiness loop is active at a time, and a loop never
\* arms another timer or reports readiness while the handle holds a worker
\* spawned by a later startBackend().
C34_OneReadinessLoop ==
    /\ [](Cardinality(ActiveLoops) <= 1)
    /\ [][\A p \in Procs : LoopGoesOn(p) => backendProcess \in {p, NoProc}]_vars

\* What the badge shows.
ShowsConnecting == backendStatus.textContent = <<"Connecting...">>
ShowsConnected ==
    backendStatus = [className |-> <<"status-indicator", "connected">>, textContent |-> <<"Connected">>]
ShowsDisconnected == backendStatus.className = <<"status-indicator", "disconnected">>

\* The updateBackendStatus() call c completes in this step, and the response
\* it has received, if any, was a successful one.
CheckCompletes(c) == health[c].st # "done" /\ health'[c].st = "done"
SuccessfulResponse(c) == ResponseOk(health'[c].status)
NoCheckDone == \A c \in Checks : health[c].st # "done"

\* C35: the badge shows Connecting until a health check completes; a check
\* that completes leaves it Connected if that check received a successful
\* response and disconnected otherwise; nothing but a completing check
\* changes it after the page has loaded, and it never returns to Connecting.
C35_BadgeFollowsLastCheck ==
    /\ [](NoCheckDone => ShowsConnecting)
    /\ [][\A c \in Checks : CheckCompletes(c) =>
            /\ ShowsConnected' <=> SuccessfulResponse(c)
            /\ ~ShowsConnected' => ShowsDisconnected']_vars
    /\ [][(loaded /\ \A c \in Checks : ~CheckCompletes(c)) =>
            backendStatus' = backendStatus]_vars
    /\ [][~ShowsConnecting => ~ShowsConnecting']_vars

========================================================================
